---- MODULE Spec2Model ----
(***************************************************************************)
(* The single-line text-editing core of ted-itor (src/src/ui.rs):          *)
(* TextModel (text, selection, word_click), the key handler of TextInput,  *)
(* the click handler of TextDisplay, TextModel::reset and                  *)
(* TextModel::word_ranges.                                                 *)
(*                                                                         *)
(* A Rust String is modelled as the sequence of its UTF-8 bytes (integers  *)
(* 0..255); offsets are byte offsets, as in the code.  A Range<usize> is   *)
(* the record [start, end].  An Option<T> is a sequence of length 0 (None) *)
(* or 1 (Some).  A panic of the handler is the absorbing state             *)
(* panicked = TRUE.                                                        *)
(***************************************************************************)
EXTENDS Integers, Sequences, FiniteSets, TLC

\* ------------------------------------------------------------------ bounds

\* Longest text, in bytes, the model lets the buffer grow to.
MaxLen == 3

\* Longest text, in bytes, given to word_ranges in SpecSeg.
MaxSegLen == 5

\* ------------------------------------------------------- UTF-8 and strings

\* The line break inserted by "enter", and the underscore of word_ranges.
Newline == 10
Underscore == 95

\* The largest value of word_click's u16 counter.
U16Max == 65535

\* char::encode_utf8 for scalar values below U+0800.
encode_utf8(c) ==
    IF c < 128 THEN <<c>> ELSE <<192 + (c \div 64), 128 + (c % 64)>>

\* core::str::utf8_char_width of a leading byte.
utf8_char_width(b) ==
    IF b < 128 THEN 1 ELSE IF b < 224 THEN 2 ELSE IF b < 240 THEN 3 ELSE 4

\* u8::is_utf8_char_boundary: (b as i8) >= -0x40.
is_utf8_char_boundary(b) == b < 128 \/ b >= 192

\* str::is_char_boundary.
is_char_boundary(s, i) ==
    \/ i = 0
    \/ i = Len(s)
    \/ i < Len(s) /\ is_utf8_char_boundary(s[i + 1])

\* The bytes of s at offsets [a, b).
bytes(s, a, b) == SubSeq(s, a + 1, b)

\* str indexing by a range, &s[a..b], succeeds (does not panic).
slice_ok(s, a, b) ==
    a <= b /\ b <= Len(s) /\ is_char_boundary(s, a) /\ is_char_boundary(s, b)

\* String::replace_range(a..b, with), when it does not panic.
replace_range(s, a, b, with) == bytes(s, 0, a) \o with \o bytes(s, b, Len(s))

\* The scalar value that starts at byte offset i (1- and 2-byte forms).
char_at(s, i) ==
    IF utf8_char_width(s[i + 1]) = 1
    THEN s[i + 1]
    ELSE (s[i + 1] % 32) * 64 + (s[i + 2] % 64)

\* str::char_indices: the sequence of <<byte offset, scalar value>>.
RECURSIVE char_indices_from(_, _)
char_indices_from(s, i) ==
    IF i >= Len(s)
    THEN <<>>
    ELSE <<<<i, char_at(s, i)>>>>
         \o char_indices_from(s, i + utf8_char_width(s[i + 1]))

char_indices(s) == char_indices_from(s, 0)

\* char::is_alphanumeric, for scalar values up to U+00FF.
is_alphanumeric(c) ==
    \/ c \in 48..57 \/ c \in 65..90 \/ c \in 97..122
    \/ c \in {170, 178, 179, 181, 185, 186, 188, 189, 190}
    \/ c \in 192..214 \/ c \in 216..246 \/ c \in 248..255

Range(a, b) == [start |-> a, end |-> b]


\* ------------------------------------------------------------ word_ranges

\* The loop body of word_ranges over cs[k..]: st = <<words, last_was_boundary,
\* word_start>>.
RECURSIVE word_scan(_, _, _, _, _)
word_scan(cs, k, words, last_was_boundary, word_start) ==
    IF k > Len(cs)
    THEN <<words, last_was_boundary, word_start>>
    ELSE LET i == cs[k][1]
             c == cs[k][2]
         IN  IF is_alphanumeric(c) \/ c = Underscore
             THEN word_scan(cs, k + 1, words, FALSE,
                            IF last_was_boundary THEN i ELSE word_start)
             ELSE word_scan(cs, k + 1,
                            IF ~last_was_boundary
                            THEN Append(words, Range(word_start, i))
                            ELSE words,
                            TRUE, word_start)

\* word_ranges without the push after the loop.
word_ranges_no_trailing(s) ==
    word_scan(char_indices(s), 1, <<>>, TRUE, 0)[1]

\* TextModel::word_ranges.
word_ranges(s) ==
    LET st == word_scan(char_indices(s), 1, <<>>, TRUE, 0)
    IN  IF ~st[2] THEN Append(st[1], Range(st[3], Len(s))) ELSE st[1]


\* ------------------------------------------------------------------ inputs

Str_a == <<97>>
Str_space == <<32>>
Str_e_acute == encode_utf8(233)

\* The ime_key strings a keystroke can carry.
InsertKeys == {Str_a, Str_e_acute}

None == <<>>
Some(x) == <<x>>

\* What another application may have left on the clipboard.
ExternalClips == {None, Some(Str_e_acute \o Str_a)}

\* All strings of at most n bytes made by concatenating members of alpha.
RECURSIVE Strings(_, _)
Strings(alpha, n) ==
    IF n = 0
    THEN {<<>>}
    ELSE LET shorter == Strings(alpha, n - 1)
         IN  shorter \cup {t \in {s \o k : s \in shorter, k \in alpha} : Len(t) <= n}

\* The initial_text values given to TextInput::new.
InitialTexts == {<<>>, Str_a \o Str_e_acute}

\* ------------------------------------------------------------------- state

VARIABLES
    text,          \* TextModel.text, as UTF-8 bytes
    selection,     \* TextModel.selection, [start, end] in bytes
    word_click,    \* TextModel.word_click, [index, count]
    clipboard,     \* the platform clipboard: None or Some(string)
    click_ranges,  \* the ranges TextDisplay::render registered with on_click
    emitted,       \* the TextEvents the last handler emitted, in order
    panicked,      \* TRUE once a handler has panicked
    cmd,           \* the last input delivered: [name, key, index]
    before,        \* the TextModel as it was when that input arrived
    typed          \* the string the host types in SpecRoundTrip, else ""

vars == <<text, selection, word_click, clipboard, click_ranges, emitted,
          panicked, cmd, before, typed>>

\* The fields of TextModel.
TextModel == [text |-> text, selection |-> selection, word_click |-> word_click]

WordClick(i, n) == [index |-> i, count |-> n]
InputEvent(t) == [kind |-> "Input", text |-> t, dir |-> "-"]
MovementEvent(d) == [kind |-> "Movement", text |-> <<>>, dir |-> d]
Cmd(name, key, index) == [name |-> name, key |-> key, index |-> index]

\* TextInput::new / TextModel::init.
Init ==
    /\ text \in InitialTexts
    /\ selection = Range(Len(text), Len(text))
    /\ word_click = WordClick(0, 0)
    /\ clipboard \in ExternalClips
    /\ click_ranges = word_ranges(text)
    /\ emitted = <<>>
    /\ panicked = FALSE
    /\ cmd = Cmd("new", <<>>, 0)
    /\ before = TextModel
    /\ typed = <<>>

\* A subscription that never resets word_click.
on_text_event_ignored(events, wc) == wc

\* The subscription of TextModel::init: every TextEvent::Input resets
\* word_click; a Movement leaves it alone.
on_text_event(events, wc) ==
    IF \E k \in 1..Len(events) : events[k].kind = "Input"
    THEN WordClick(0, 0)
    ELSE wc

\* key_done that emits the text as it was before the command.
key_done_emits_old_text(new_text, new_selection, new_clipboard, c) ==
    /\ text' = new_text
    /\ selection' = new_selection
    /\ clipboard' = new_clipboard
    /\ emitted' = <<InputEvent(text)>>
    /\ word_click' = on_text_event(emitted', word_click)
    /\ click_ranges' = word_ranges(new_text)
    /\ cmd' = c
    /\ before' = TextModel
    /\ UNCHANGED <<panicked, typed>>

\* The end of the key handler: emit TextEvent::Input with the new text; the
\* subscribers then reset word_click and re-render the display.
key_done(new_text, new_selection, new_clipboard, c) ==
    /\ text' = new_text
    /\ selection' = new_selection
    /\ clipboard' = new_clipboard
    /\ emitted' = <<InputEvent(new_text)>>
    /\ word_click' = on_text_event(emitted', word_click)
    /\ click_ranges' = word_ranges(new_text)
    /\ cmd' = c
    /\ before' = TextModel
    /\ UNCHANGED <<panicked, typed>>

\* A panic inside a handler: nothing was assigned or emitted before it.
panic(c) ==
    /\ panicked' = TRUE
    /\ emitted' = <<>>
    /\ cmd' = c
    /\ before' = TextModel
    /\ UNCHANGED <<text, selection, word_click, clipboard, click_ranges, typed>>


\* ------------------------------------------------------------ key commands

\* select_all that keeps selection.start.
select_all_keeps_start ==
    /\ ~panicked
    /\ key_done(text, Range(selection.start, Len(text)), clipboard,
                Cmd("select_all", <<>>, 0))

\* cmd-"a".
select_all ==
    /\ ~panicked
    /\ key_done(text, Range(0, Len(text)), clipboard, Cmd("select_all", <<>>, 0))

\* cmd-"c": text[selection] goes to the clipboard.
copy ==
    /\ ~panicked
    /\ IF slice_ok(text, selection.start, selection.end)
       THEN key_done(text, selection,
                     Some(bytes(text, selection.start, selection.end)),
                     Cmd("copy", <<>>, 0))
       ELSE panic(Cmd("copy", <<>>, 0))

\* cmd-"v", the clipboard read returning clip.
paste(clip) ==
    /\ ~panicked
    /\ IF clip = None
       THEN key_done(text, selection, clip, Cmd("paste", <<>>, 0))
       ELSE IF slice_ok(text, selection.start, selection.end)
       THEN LET t == replace_range(text, selection.start, selection.end, clip[1])
                i == selection.start + Len(clip[1])
            IN  /\ Len(t) <= MaxLen
                /\ key_done(t, Range(i, i), clip, Cmd("paste", <<>>, 0))
       ELSE /\ clipboard' = clip
            /\ panicked' = TRUE
            /\ emitted' = <<>>
            /\ cmd' = Cmd("paste", <<>>, 0)
            /\ before' = TextModel
            /\ UNCHANGED <<text, selection, word_click, click_ranges, typed>>

\* cmd-"x".
cut ==
    /\ ~panicked
    /\ IF slice_ok(text, selection.start, selection.end)
       THEN key_done(replace_range(text, selection.start, selection.end, <<>>),
                     Range(selection.start, selection.start),
                     Some(bytes(text, selection.start, selection.end)),
                     Cmd("cut", <<>>, 0))
       ELSE panic(Cmd("cut", <<>>, 0))

\* A command chord with any other key.
command_other ==
    /\ ~panicked
    /\ key_done(text, selection, clipboard, Cmd("command_other", <<>>, 0))

\* A keystroke with an ime_key.
insert_text(ime_key) ==
    /\ ~panicked
    /\ IF slice_ok(text, selection.start, selection.end)
       THEN LET t == replace_range(text, selection.start, selection.end, ime_key)
                i == selection.start + Len(ime_key)
            IN  /\ Len(t) <= MaxLen
                /\ key_done(t, Range(i, i), clipboard,
                            Cmd("insert_text", ime_key, 0))
       ELSE panic(Cmd("insert_text", ime_key, 0))

\* request_movement without the return: the Input emit follows.
request_movement_no_return(direction) ==
    /\ ~panicked
    /\ emitted' = <<MovementEvent(direction), InputEvent(text)>>
    /\ word_click' = on_text_event(emitted', word_click)
    /\ cmd' = Cmd("request_movement", <<>>, IF direction = "Up" THEN 0 ELSE 1)
    /\ before' = TextModel
    /\ UNCHANGED <<text, selection, clipboard, click_ranges, panicked, typed>>

\* "up" / "down": emit the movement and return before the Input emit.
request_movement(direction) ==
    /\ ~panicked
    /\ emitted' = <<MovementEvent(direction)>>
    /\ word_click' = on_text_event(emitted', word_click)
    /\ cmd' = Cmd("request_movement", <<>>, IF direction = "Up" THEN 0 ELSE 1)
    /\ before' = TextModel
    /\ UNCHANGED <<text, selection, clipboard, click_ranges, panicked, typed>>

\* "left".
move_left ==
    /\ ~panicked
    /\ LET i == IF selection.start = selection.end
                THEN selection.start - 1
                ELSE selection.start
       IN  key_done(text,
                    IF selection.start > 0 THEN Range(i, i) ELSE selection,
                    clipboard, Cmd("move_left", <<>>, 0))

\* move_right without the test against text.len().
move_right_unclamped ==
    /\ ~panicked
    /\ LET i == IF selection.start = selection.end
                THEN selection.end + 1
                ELSE selection.end
       IN  key_done(text, Range(i, i), clipboard, Cmd("move_right", <<>>, 0))

\* "right".
move_right ==
    /\ ~panicked
    /\ LET i == IF selection.start = selection.end
                THEN selection.end + 1
                ELSE selection.end
       IN  key_done(text,
                    IF selection.end < Len(text) THEN Range(i, i) ELSE selection,
                    clipboard, Cmd("move_right", <<>>, 0))

\* Chars::next_back on s, then as_str().len(): the length of s without its
\* last scalar value, found by walking back over continuation bytes.
RECURSIVE next_back_len(_, _)
next_back_len(s, j) ==
    IF j = 0
    THEN 0
    ELSE IF is_utf8_char_boundary(s[j]) THEN j - 1 ELSE next_back_len(s, j - 1)

\* backspace that puts the caret one byte, not one scalar value, back.
backspace_caret_by_byte ==
    /\ ~panicked
    /\ IF selection.start = selection.end /\ selection.start > 0
       THEN IF is_char_boundary(text, selection.start)
            THEN LET start == bytes(text, 0, selection.start)
                     i == next_back_len(start, Len(start))
                 IN  key_done(bytes(start, 0, i)
                                \o bytes(text, selection.end, Len(text)),
                              Range(selection.start - 1, selection.start - 1),
                              clipboard, Cmd("backspace", <<>>, 0))
            ELSE panic(Cmd("backspace", <<>>, 0))
       ELSE IF slice_ok(text, selection.start, selection.end)
            THEN key_done(replace_range(text, selection.start, selection.end, <<>>),
                          Range(selection.start, selection.start),
                          clipboard, Cmd("backspace", <<>>, 0))
            ELSE panic(Cmd("backspace", <<>>, 0))

\* "backspace".
backspace ==
    /\ ~panicked
    /\ IF selection.start = selection.end /\ selection.start > 0
       THEN IF is_char_boundary(text, selection.start)
            THEN LET start == bytes(text, 0, selection.start)
                     i == next_back_len(start, Len(start))
                 IN  key_done(bytes(start, 0, i)
                                \o bytes(text, selection.end, Len(text)),
                              Range(i, i), clipboard, Cmd("backspace", <<>>, 0))
            ELSE panic(Cmd("backspace", <<>>, 0))
       ELSE IF slice_ok(text, selection.start, selection.end)
            THEN key_done(replace_range(text, selection.start, selection.end, <<>>),
                          Range(selection.start, selection.start),
                          clipboard, Cmd("backspace", <<>>, 0))
            ELSE panic(Cmd("backspace", <<>>, 0))

\* "enter": String::insert at selection.start.
insert_newline ==
    /\ ~panicked
    /\ IF is_char_boundary(text, selection.start)
       THEN LET t == bytes(text, 0, selection.start) \o encode_utf8(Newline)
                       \o bytes(text, selection.start, Len(text))
                i == selection.start + 1
            IN  /\ Len(t) <= MaxLen
                /\ key_done(t, Range(i, i), clipboard,
                            Cmd("insert_newline", <<>>, 0))
       ELSE panic(Cmd("insert_newline", <<>>, 0))

\* "escape" (hides the application) and any other key (logged).
unhandled_key ==
    /\ ~panicked
    /\ key_done(text, selection, clipboard, Cmd("unhandled_key", <<>>, 0))

\* ------------------------------------------------------------------ clicks

\* click_at_word that keeps the count at 4 after the fourth click.
click_at_word_no_reset(ev) ==
    /\ ~panicked
    /\ LET index == word_click.index
           count == IF index = ev THEN word_click.count + 1 ELSE 1
           ranges == word_ranges(text)
           c == Cmd("click_at_word", <<>>, ev)
       IN  IF count = 2 /\ ev >= Len(ranges)
           THEN panic(c)
           ELSE /\ selection' =
                      IF count = 2 THEN ranges[ev + 1]
                      ELSE IF count = 4 THEN Range(0, Len(text))
                      ELSE selection
                /\ word_click' = WordClick(ev, count)
                /\ emitted' = <<>>
                /\ cmd' = c
                /\ before' = TextModel
                /\ UNCHANGED <<text, clipboard, click_ranges, panicked, typed>>

\* click_at_word that counts up whatever word was clicked before.
click_at_word_ignores_index(ev) ==
    /\ ~panicked
    /\ LET index == word_click.index
           count == word_click.count + 1
           ranges == word_ranges(text)
           c == Cmd("click_at_word", <<>>, ev)
       IN  IF count = 2 /\ ev >= Len(ranges)
           THEN panic(c)
           ELSE /\ selection' =
                      IF count = 2 THEN ranges[ev + 1]
                      ELSE IF count = 4 THEN Range(0, Len(text))
                      ELSE selection
                /\ word_click' = WordClick(ev, IF count = 4 THEN 0 ELSE count)
                /\ emitted' = <<>>
                /\ cmd' = c
                /\ before' = TextModel
                /\ UNCHANGED <<text, clipboard, click_ranges, panicked, typed>>

\* The on_click closure of TextDisplay::render with word index ev.
click_at_word(ev) ==
    /\ ~panicked
    /\ LET index == word_click.index
           count == IF index = ev THEN word_click.count + 1 ELSE 1
           ranges == word_ranges(text)
           c == Cmd("click_at_word", <<>>, ev)
       IN  IF count = 2 /\ ev >= Len(ranges)
           THEN panic(c)
           ELSE /\ selection' =
                      IF count = 2 THEN ranges[ev + 1]
                      ELSE IF count = 4 THEN Range(0, Len(text))
                      ELSE selection
                /\ word_click' = WordClick(ev, IF count = 4 THEN 0 ELSE count)
                /\ emitted' = <<>>
                /\ cmd' = c
                /\ before' = TextModel
                /\ UNCHANGED <<text, clipboard, click_ranges, panicked, typed>>

\* ------------------------------------------------------------------- reset

\* reset that clears the text and forgets the selection.
reset_keeps_selection ==
    /\ ~panicked
    /\ text' = <<>>
    /\ emitted' = <<InputEvent(text')>>
    /\ word_click' = on_text_event(emitted', word_click)
    /\ click_ranges' = word_ranges(text')
    /\ cmd' = Cmd("reset", <<>>, 0)
    /\ before' = TextModel
    /\ UNCHANGED <<selection, clipboard, panicked, typed>>

\* Editor::clear -> TextModel::reset.
reset ==
    /\ ~panicked
    /\ text' = <<>>
    /\ selection' = Range(0, 0)
    /\ emitted' = <<InputEvent(text')>>
    /\ word_click' = on_text_event(emitted', word_click)
    /\ click_ranges' = word_ranges(text')
    /\ cmd' = Cmd("reset", <<>>, 0)
    /\ before' = TextModel
    /\ UNCHANGED <<clipboard, panicked, typed>>

\* ----------------------------------------------------------- specification

\* The word indices the host can deliver: those of the rendered ranges.
ValidIndices == 0..(Len(click_ranges) - 1)

Next ==
    \/ select_all
    \/ copy
    \/ \E clip \in {clipboard} \cup ExternalClips : paste(clip)
    \/ cut
    \/ command_other
    \/ \E ime_key \in InsertKeys : insert_text(ime_key)
    \/ \E direction \in {"Up", "Down"} : request_movement(direction)
    \/ move_left
    \/ move_right
    \/ backspace
    \/ insert_newline
    \/ unhandled_key
    \/ \E ev \in ValidIndices : click_at_word(ev)
    \/ reset

Spec == Init /\ [][Next]_vars


\* ------------------------------------------------------------ segmentation

\* The strings word_ranges is run on: letters, a digit, the underscore, the
\* space, the line break, U+00E9 (a 2-byte letter) and U+00A3 (a 2-byte
\* symbol).
SegAlphabet ==
    {Str_a, encode_utf8(50), encode_utf8(Underscore), Str_space,
     encode_utf8(Newline), Str_e_acute, encode_utf8(163)}

SegTexts == Strings(SegAlphabet, MaxSegLen)

\* A TextInput built on any of SegTexts, not yet rendered.
InitSeg ==
    /\ text \in SegTexts
    /\ selection = Range(Len(text), Len(text))
    /\ word_click = WordClick(0, 0)
    /\ clipboard = None
    /\ click_ranges = <<>>
    /\ emitted = <<>>
    /\ panicked = FALSE
    /\ cmd = Cmd("new", <<>>, 0)
    /\ before = TextModel
    /\ typed = <<>>

\* TextDisplay::render: the word ranges of the text go to on_click.
render ==
    /\ cmd.name = "new"
    /\ click_ranges' = word_ranges(text)
    /\ cmd' = Cmd("render", <<>>, 0)
    /\ UNCHANGED <<text, selection, word_click, clipboard, emitted, panicked,
                   before, typed>>

NextSeg == render

SpecSeg == InitSeg /\ [][NextSeg]_vars


\* ------------------------------------------------- notions used by the claims

\* The byte offsets at which a scalar value of s starts.
CharStarts(s) ==
    LET cs == char_indices(s) IN {cs[k][1] : k \in 1..Len(cs)}

\* The scalar-value boundaries of s.
ScalarBoundaries(s) == CharStarts(s) \cup {Len(s)}

\* The scalar value starting at offset p of s is word-forming.
WordFormingAt(s, p) == is_alphanumeric(char_at(s, p)) \/ char_at(s, p) = Underscore

\* The maximal runs of word-forming scalar values of s, as byte ranges.
MaximalRuns(s) ==
    LET starts == CharStarts(s)
    IN  {r \in [start : 0..Len(s), end : 0..Len(s)] :
            /\ r.start < r.end
            /\ r.start \in starts
            /\ r.end \in starts \cup {Len(s)}
            /\ \A p \in starts : (r.start <= p /\ p < r.end) => WordFormingAt(s, p)
            /\ \A p \in starts :
                  (p < r.start /\ p + utf8_char_width(s[p + 1]) = r.start)
                      => ~WordFormingAt(s, p)
            /\ r.end < Len(s) => ~WordFormingAt(s, r.end)}

\* The i-th (from 0) maximal run of s, left to right.
WordRangeAt(s, i) ==
    CHOOSE r \in MaximalRuns(s) :
        Cardinality({q \in MaximalRuns(s) : q.start < r.start}) = i

\* ------------------------------------------------------------------ claims

\* C1: in every reachable state 0 <= selection.start <= selection.end <=
\* len(text), in bytes.
SelectionInBounds ==
    /\ 0 <= selection.start
    /\ selection.start <= selection.end
    /\ selection.end <= Len(text)

\* move_right arrived with the caret at the end of a non-empty text and left
\* it there.
SelectionInBoundsWitness ==
    /\ cmd.name = "move_right"
    /\ Len(text) > 0
    /\ before.selection = Range(Len(before.text), Len(before.text))
    /\ selection = Range(Len(text), Len(text))

\* C2: selection.start and selection.end always lie on scalar-value
\* boundaries of the current text.
SelectionOnScalarBoundaries ==
    /\ selection.start \in ScalarBoundaries(text)
    /\ selection.end \in ScalarBoundaries(text)

\* C3: no sequence of commands reaches a panic.
NoPanic == ~panicked

\* C4: a click on valid word index i that finds click_count = 0 gives
\* count 1 and leaves the selection; one that finds (i, 1) gives (i, 2) and
\* selects the i-th word; one that finds (i, 2) gives (i, 3) and leaves the
\* selection; one that finds (i, 3) selects the whole text and resets the
\* count to 0, so that the next click is again the first of a cycle.
ClickEscalationCycle ==
    cmd.name = "click_at_word" =>
        LET i == cmd.index
            b == before.word_click
        IN  /\ text = before.text
            /\ b.count = 0 =>
                  word_click = WordClick(i, 1) /\ selection = before.selection
            /\ b = WordClick(i, 1) =>
                  word_click = WordClick(i, 2) /\ selection = WordRangeAt(text, i)
            /\ b = WordClick(i, 2) =>
                  word_click = WordClick(i, 3) /\ selection = before.selection
            /\ b = WordClick(i, 3) =>
                  word_click = WordClick(i, 0) /\ selection = Range(0, Len(text))

\* The fourth click of a cycle on a word that is not the whole text.
ClickEscalationCycleWitness ==
    /\ cmd.name = "click_at_word"
    /\ before.word_click = WordClick(cmd.index, 3)
    /\ word_click = WordClick(cmd.index, 0)
    /\ selection = Range(0, Len(text))
    /\ WordRangeAt(text, cmd.index) # selection

\* C5: a click on a word index other than last_clicked_word_index gives
\* click_count 1 on that index and leaves text and selection unchanged.
ClickOtherWordResets ==
    (cmd.name = "click_at_word" /\ cmd.index # before.word_click.index) =>
        /\ word_click = WordClick(cmd.index, 1)
        /\ text = before.text
        /\ selection = before.selection

\* A click on word 1 after a double click on word 0.
ClickOtherWordResetsWitness ==
    /\ cmd.name = "click_at_word"
    /\ cmd.index = 1
    /\ before.word_click = WordClick(0, 2)
    /\ word_click = WordClick(1, 1)

\* C6: word_ranges returns exactly the maximal runs of word-forming scalar
\* values, left to right, non-empty, pairwise non-overlapping and
\* non-adjacent; none for a text without word-forming values; the last one
\* ends at len(text) when the text ends in a word.
WordSegmentationCorrect ==
    cmd.name = "render" =>
        LET w == click_ranges
            n == Len(click_ranges)
        IN  /\ {w[k] : k \in 1..n} = MaximalRuns(text)
            /\ \A k \in 1..n : w[k].start < w[k].end
            /\ \A k \in 1..(n - 1) : w[k].end < w[k + 1].start
            /\ (\A p \in CharStarts(text) : ~WordFormingAt(text, p)) => n = 0
            /\ (\E p \in CharStarts(text) :
                    /\ p + utf8_char_width(text[p + 1]) = Len(text)
                    /\ WordFormingAt(text, p))
                  => (n > 0 /\ w[n].end = Len(text))
            /\ word_ranges(<<>>) = <<>>
            /\ word_ranges(<<97, 98, 99>>) = <<Range(0, 3)>>
            /\ word_ranges(<<102, 111, 111, 32, 98, 97, 114>>)
                  = <<Range(0, 3), Range(4, 7)>>
            /\ word_ranges(<<32, 32>>) = <<>>
            /\ word_ranges(<<97, 95, 98, 50, 32, 99>>)
                  = <<Range(0, 4), Range(5, 6)>>

\* The ranges of "é a_": a 2-byte word, then a trailing word.
WordSegmentationCorrectWitness ==
    /\ cmd.name = "render"
    /\ text = Str_e_acute \o Str_space \o Str_a \o encode_utf8(Underscore)
    /\ click_ranges = <<Range(0, 2), Range(3, 5)>>

\* C7: insert_text(s) and paste of a non-empty s turn text into
\* old[0..a] + s + old[b..] and collapse the caret at a + len(s), for the
\* selection [a, b) they find.
ReplaceSelection ==
    LET pasted == cmd.name = "paste" /\ clipboard # None /\ clipboard # Some(<<>>)
        s == IF cmd.name = "paste" THEN clipboard[1] ELSE cmd.key
        a == before.selection.start
        b == before.selection.end
        old == before.text
    IN  (cmd.name = "insert_text" \/ pasted) =>
            /\ text = bytes(old, 0, a) \o s \o bytes(old, b, Len(old))
            /\ selection = Range(a + Len(s), a + Len(s))

\* C8: paste when the clipboard read returns nothing or the empty string
\* leaves text and selection unchanged.
PasteEmptyIsNoOp ==
    (cmd.name = "paste" /\ (clipboard = None \/ clipboard = Some(<<>>))) =>
        /\ text = before.text
        /\ selection = before.selection

\* C9: backspace with a collapsed caret at a scalar-value boundary > 0
\* removes the one scalar value before the caret and puts the caret where
\* that value started; with an expanded selection it removes text[selection]
\* and collapses the caret at selection.start; with a collapsed caret at 0 it
\* changes neither text nor selection.
BackspaceSemantics ==
    cmd.name = "backspace" =>
        LET a == before.selection.start
            b == before.selection.end
            old == before.text
        IN  /\ (a = b /\ a > 0 /\ a \in ScalarBoundaries(old)) =>
                  \E p \in CharStarts(old) :
                      /\ p + utf8_char_width(old[p + 1]) = a
                      /\ text = bytes(old, 0, p) \o bytes(old, a, Len(old))
                      /\ selection = Range(p, p)
            /\ a < b =>
                  /\ text = bytes(old, 0, a) \o bytes(old, b, Len(old))
                  /\ selection = Range(a, a)
            /\ (a = b /\ a = 0) =>
                  /\ text = old
                  /\ selection = before.selection

\* backspace after "aé" removed both bytes of U+00E9.
BackspaceSemanticsWitness ==
    /\ cmd.name = "backspace"
    /\ before.text = Str_a \o Str_e_acute
    /\ before.selection = Range(3, 3)
    /\ text = Str_a
    /\ selection = Range(1, 1)

\* C10: insert_newline, when it returns, has turned text into
\* old[0..a] + "\n" + old[b..] and collapsed the caret at a + 1.
NewlineReplacesSelection ==
    (cmd.name = "insert_newline" /\ ~panicked) =>
        LET a == before.selection.start
            b == before.selection.end
            old == before.text
        IN  /\ text = bytes(old, 0, a) \o <<Newline>> \o bytes(old, b, Len(old))
            /\ selection = Range(a + 1, a + 1)

\* C11: move_left on an expanded selection collapses it to a caret at
\* start and move_right to a caret at end, wherever the selection lies; a
\* move leaves the selection as it was only for a collapsed caret at 0 (left)
\* or at len(text) (right).
MoveCollapsesSelection ==
    LET a == before.selection.start
        b == before.selection.end
    IN  /\ cmd.name = "move_left" =>
              /\ a < b => selection = Range(a, a)
              /\ selection = before.selection => (a = b /\ a = 0)
        /\ cmd.name = "move_right" =>
              /\ a < b => selection = Range(b, b)
              /\ selection = before.selection => (a = b /\ b = Len(before.text))

\* C12: cut with a collapsed selection leaves text and selection unchanged
\* and writes "" to the clipboard; with an expanded one it writes
\* text[selection], removes that span and collapses the caret at start.
CutSemantics ==
    cmd.name = "cut" =>
        LET a == before.selection.start
            b == before.selection.end
            old == before.text
        IN  /\ a = b =>
                  /\ text = old
                  /\ selection = before.selection
                  /\ clipboard = Some(<<>>)
            /\ a < b =>
                  /\ clipboard = Some(bytes(old, a, b))
                  /\ text = bytes(old, 0, a) \o bytes(old, b, Len(old))
                  /\ selection = Range(a, a)

\* --------------------------------------------------------------- round trip

\* The non-empty strings typed into an empty buffer.
RoundTripStrings == Strings(SegAlphabet, MaxLen) \ {<<>>}

\* A TextInput built on "", and the string about to be typed.
InitRoundTrip ==
    /\ text = <<>>
    /\ selection = Range(0, 0)
    /\ word_click = WordClick(0, 0)
    /\ clipboard \in ExternalClips
    /\ click_ranges = word_ranges(text)
    /\ emitted = <<>>
    /\ panicked = FALSE
    /\ cmd = Cmd("new", <<>>, 0)
    /\ before = TextModel
    /\ typed \in RoundTripStrings

\* insert_text(typed), then select_all, then copy.
NextRoundTrip ==
    \/ cmd.name = "new" /\ insert_text(typed)
    \/ cmd.name = "insert_text" /\ select_all
    \/ cmd.name = "select_all" /\ copy

SpecRoundTrip == InitRoundTrip /\ [][NextRoundTrip]_vars

\* C13: after insert_text(s) into an empty buffer, select_all and copy, the
\* clipboard holds s and the text is s.
InsertSelectAllCopyRoundTrip ==
    cmd.name = "copy" => (clipboard = Some(typed) /\ text = typed)

\* The round trip of "é " has been made.
InsertSelectAllCopyRoundTripWitness ==
    /\ cmd.name = "copy"
    /\ ~panicked
    /\ typed = Str_e_acute \o Str_space
    /\ clipboard = Some(typed)

\* C14: once a command that mutates the text (insert_text, paste of a text,
\* cut, backspace, insert_newline, reset) has completed, click_count is 0;
\* and a click that finds click_count 0 gives click_count 1 on the clicked
\* index and leaves the selection.
MutationResetsClickCounter ==
    /\ (/\ \/ cmd.name \in {"insert_text", "cut", "backspace",
                            "insert_newline", "reset"}
           \/ cmd.name = "paste" /\ clipboard # None
        /\ ~panicked)
          => word_click.count = 0
    /\ (cmd.name = "click_at_word" /\ before.word_click.count = 0) =>
          /\ word_click = WordClick(cmd.index, 1)
          /\ selection = before.selection

\* backspace removed text after a double click and the counter is back to 0.
MutationResetsClickCounterWitness ==
    /\ cmd.name = "backspace"
    /\ before.word_click.count = 2
    /\ text # before.text
    /\ word_click.count = 0

\* ------------------------------------------------------------ any word index

\* The word indices a caller of the click handler can pass.
AnyIndices == 0..MaxLen

\* Next, and clicks whose index is not one of the rendered ranges.
NextAnyIndex ==
    \/ Next
    \/ \E ev \in AnyIndices \ ValidIndices : click_at_word(ev)

SpecAnyIndex == Init /\ [][NextAnyIndex]_vars

\* C15: click_at_word with an index that is no index of word_ranges of the
\* current text leaves text, selection and click_count unchanged (and does
\* not panic), whatever the click state was.
InvalidClickIsNoOp ==
    (/\ cmd.name = "click_at_word"
     /\ cmd.index >= Len(word_ranges(before.text)))
        => /\ ~panicked
           /\ text = before.text
           /\ selection = before.selection
           /\ word_click.count = before.word_click.count

\* C16: reset yields text = "", selection [0, 0) and emits one change
\* notification carrying the empty text; the constructor yields one of the
\* initial texts with a collapsed caret at its end and click_count 0.
ResetAndConstructor ==
    /\ cmd.name = "reset" =>
          /\ text = <<>>
          /\ selection = Range(0, 0)
          /\ emitted = <<InputEvent(<<>>)>>
    /\ cmd.name = "new" =>
          /\ text \in InitialTexts
          /\ selection = Range(Len(text), Len(text))
          /\ word_click.count = 0

\* reset arrived with a non-empty text and a caret away from 0.
ResetAndConstructorWitness ==
    /\ cmd.name = "reset"
    /\ before.text # <<>>
    /\ before.selection.start > 0
    /\ text = <<>>

\* C17 as claimed: every command that changes the text or the selection,
\* click_at_word included, emits TextEvent::Input with the text after it.
ChangeEmitsNotification ==
    (text # before.text \/ selection # before.selection) =>
        emitted = <<InputEvent(text)>>

\* C17 as amended: every key command and reset that changes the text or the
\* selection emits exactly TextEvent::Input with the text after it;
\* click_at_word emits no TextEvent, also when it changes the selection.
KeyChangeEmitsNotification ==
    /\ (/\ cmd.name \notin {"new", "click_at_word"}
        /\ (text # before.text \/ selection # before.selection))
          => emitted = <<InputEvent(text)>>
    /\ cmd.name = "click_at_word" => emitted = <<>>

\* A click changed the selection and emitted nothing.
KeyChangeEmitsNotificationWitness ==
    /\ cmd.name = "click_at_word"
    /\ selection # before.selection
    /\ emitted = <<>>

\* C18: request_movement emits exactly one movement signal, of the requested
\* direction, and no change notification, and leaves text, selection and
\* word_click as they were.
MovementOnlySignals ==
    cmd.name = "request_movement" =>
        /\ emitted = <<MovementEvent(IF cmd.index = 0 THEN "Up" ELSE "Down")>>
        /\ TextModel = before

\* "down" arrived after a double click and left the click state.
MovementOnlySignalsWitness ==
    /\ cmd.name = "request_movement"
    /\ cmd.index = 1
    /\ word_click.count = 2
    /\ emitted = <<MovementEvent("Down")>>

\* C19: move_left, move_right, select_all, copy, paste of an unavailable
\* clipboard and unknown keys leave word_click as it was; unknown keys leave
\* the whole TextModel as it was.
NonMutatingKeepsClickState ==
    /\ (\/ cmd.name \in {"move_left", "move_right", "select_all", "copy",
                         "unhandled_key", "command_other"}
        \/ cmd.name = "paste" /\ clipboard = None)
          => word_click = before.word_click
    /\ cmd.name \in {"unhandled_key", "command_other"} => TextModel = before

\* C20: the stored click count is always in 0..3 and its increment stays
\* within u16; click_at_word, select_all, copy, move_left, move_right and
\* request_movement leave the text as it was.
ClickCounterBounded ==
    /\ word_click.count \in 0..3
    /\ before.word_click.count + 1 <= U16Max
    /\ cmd.name \in {"click_at_word", "select_all", "copy", "move_left",
                     "move_right", "request_movement"}
          => text = before.text

\* The third click of a cycle: the largest count stored.
ClickCounterBoundedWitness ==
    /\ cmd.name = "click_at_word"
    /\ before.word_click = WordClick(cmd.index, 2)
    /\ word_click.count = 3
    /\ text = before.text

====
